---- MODULE Spec2Model ----
(***************************************************************************)
(* Model of the nano-banana product placer: the two ImageUploader slots,   *)
(* the App state (characterImage, productImage, generatedImage, isLoading, *)
(* error) and the generation client generateProductPlacementImage.         *)
(*                                                                         *)
(* JavaScript strings are sequences of one-character strings, so that      *)
(* split, match, trim, concatenation and substring tests are computed.     *)
(* null / undefined of a string-typed value are the one-element sequences  *)
(* Null / Undefined (no JavaScript string is equal to them, since their    *)
(* element is not a single character).                                     *)
(***************************************************************************)
EXTENDS Naturals, Sequences, FiniteSets

VARIABLES
    characterImage,   \* App.tsx:16  ImageFile | null
    productImage,     \* App.tsx:17  ImageFile | null
    generatedImage,   \* App.tsx:18  string | null
    isLoading,        \* App.tsx:19
    error,            \* App.tsx:20  string | null
    imagePreview,     \* ImageUploader.tsx:11, one per slot
    inputValue,       \* the file held by each slot's <input type="file">
    readers,          \* per slot: FileReaders started and not yet ended
    inFlight,         \* handleGenerate invocations started and not finished
    lastOp,           \* the handler that ran last, and its slot (history)
    pc,               \* position of the generateProductPlacementImage call
    args,             \* the two data URLs of the current / last call
    request,          \* contents.parts of the generateContent call issued
    calls,            \* generateContent calls issued by the current call
    response,         \* what the remote call settled with
    outcome           \* how the generateProductPlacementImage promise settled

vars == <<characterImage, productImage, generatedImage, isLoading, error,
          imagePreview, inputValue, readers, inFlight, lastOp, pc, args,
          request, calls, response, outcome>>

uiVars == <<characterImage, productImage, generatedImage, isLoading, error,
            imagePreview, inputValue, readers, inFlight>>

(***************************************************************************)
(* Bounds of the model.                                                    *)
(***************************************************************************)
MaxUrlLen == 5      \* longest data URL handed directly to the client
MaxParts == 2       \* most content parts in a candidate
MaxText == 2        \* longest top-level response text
MaxReaders == 2     \* most FileReaders pending in one slot

(***************************************************************************)
(* Strings.                                                                *)
(***************************************************************************)
Null == <<"null">>
Undefined == <<"undefined">>

\* JavaScript truthiness of a string | null | undefined value
Truthy(s) == s # Null /\ s # Undefined /\ s # <<>>

SeqsUpTo(S, n) == UNION {[1..k -> S] : k \in 0..n}

\* characters removed by String.prototype.trim
WhiteSpace == {" ", "\t", "\n"}
\* characters the regular expression's . does not match
LineTerminators == {"\n", "\r"}

\* "Model response: "
ModelResponsePrefix ==
    <<"M", "o", "d", "e", "l", " ", "r", "e", "s", "p", "o", "n", "s", "e",
    ":", " ">>
\* "Failed to generate image: "
FailedPrefix ==
    <<"F", "a", "i", "l", "e", "d", " ", "t", "o", " ", "g", "e", "n", "e",
    "r", "a", "t", "e", " ", "i", "m", "a", "g", "e", ":", " ">>
\* "Invalid data URL"
InvalidDataUrl ==
    <<"I", "n", "v", "a", "l", "i", "d", " ", "d", "a", "t", "a", " ", "U",
    "R", "L">>
\* "An unknown error occurred during image generation."
UnknownGenError ==
    <<"A", "n", " ", "u", "n", "k", "n", "o", "w", "n", " ", "e", "r", "r",
    "o", "r", " ", "o", "c", "c", "u", "r", "r", "e", "d", " ", "d", "u", "r",
    "i", "n", "g", " ", "i", "m", "a", "g", "e", " ", "g", "e", "n", "e", "r",
    "a", "t", "i", "o", "n", ".">>
\* "The model did not return an image. Please try a different prompt or images."
NoImageMessage ==
    <<"T", "h", "e", " ", "m", "o", "d", "e", "l", " ", "d", "i", "d", " ",
    "n", "o", "t", " ", "r", "e", "t", "u", "r", "n", " ", "a", "n", " ", "i",
    "m", "a", "g", "e", ".", " ", "P", "l", "e", "a", "s", "e", " ", "t", "r",
    "y", " ", "a", " ", "d", "i", "f", "f", "e", "r", "e", "n", "t", " ", "p",
    "r", "o", "m", "p", "t", " ", "o", "r", " ", "i", "m", "a", "g", "e", "s",
    ".">>
\* "An unknown error occurred."
UnknownError ==
    <<"A", "n", " ", "u", "n", "k", "n", "o", "w", "n", " ", "e", "r", "r",
    "o", "r", " ", "o", "c", "c", "u", "r", "r", "e", "d", ".">>
\* "Please upload both a character and a product image."
UploadBothMessage ==
    <<"P", "l", "e", "a", "s", "e", " ", "u", "p", "l", "o", "a", "d", " ",
    "b", "o", "t", "h", " ", "a", " ", "c", "h", "a", "r", "a", "c", "t", "e",
    "r", " ", "a", "n", "d", " ", "a", " ", "p", "r", "o", "d", "u", "c", "t",
    " ", "i", "m", "a", "g", "e", ".">>
\* "data:image/png;base64,"
PngUrlPrefix ==
    <<"d", "a", "t", "a", ":", "i", "m", "a", "g", "e", "/", "p", "n", "g",
    ";", "b", "a", "s", "e", "6", "4", ",">>
\* the fixed instruction of the request (no string operation is applied to it)
InstructionText ==
    <<"Analyze the first image (the character) and the second image (the product). Generate a new image where the character is naturally using or interacting with the product. The final output image MUST maintain the exact same aspect ratio and dimensions as the first (character) image. The art style should also match the character image.">>

\* s.trim()
RECURSIVE TrimStart(_)
TrimStart(s) ==
    IF s # <<>> /\ Head(s) \in WhiteSpace THEN TrimStart(Tail(s)) ELSE s

RECURSIVE TrimEnd(_)
TrimEnd(s) ==
    IF s # <<>> /\ s[Len(s)] \in WhiteSpace
    THEN TrimEnd(SubSeq(s, 1, Len(s) - 1))
    ELSE s

Trim(s) == TrimEnd(TrimStart(s))

\* s.split(','): the pieces between the separators, at least one piece
RECURSIVE Split(_, _)
Split(s, sep) ==
    IF \A i \in 1..Len(s) : s[i] # sep
    THEN <<s>>
    ELSE LET i == CHOOSE k \in 1..Len(s) :
                      s[k] = sep /\ \A j \in 1..(k - 1) : s[j] # sep
         IN  <<SubSeq(s, 1, i - 1)>> \o Split(SubSeq(s, i + 1, Len(s)), sep)

\* parts[i] of a JavaScript array: undefined past its end (i counts from 0)
ArrayAt(a, i) == IF i + 1 <= Len(a) THEN a[i + 1] ELSE Undefined

\* s.match(/:(.*?);/)?.[1]: at the leftmost ':' that a ';' follows on the
\* same line, the (lazily shortest) text between them; undefined if none
MatchMime(s) ==
    LET Hit(i, j) == /\ s[i] = ":"
                     /\ s[j] = ";"
                     /\ \A k \in (i + 1)..(j - 1) :
                           s[k] \notin LineTerminators /\ s[k] # ";"
        Starts == {i \in 1..Len(s) : \E j \in (i + 1)..Len(s) : Hit(i, j)}
    IN  IF Starts = {}
        THEN Undefined
        ELSE LET i == CHOOSE a \in Starts : \A b \in Starts : a <= b
                 j == CHOOSE b \in (i + 1)..Len(s) : Hit(i, b)
             IN  SubSeq(s, i + 1, j - 1)

(***************************************************************************)
(* The generation client (services/geminiService).                         *)
(***************************************************************************)
\* an Error object with a message
ErrorOf(m) == [isError |-> TRUE, message |-> m]
\* a thrown value that is not an Error
NonError == [isError |-> FALSE, message |-> Undefined]

Returned(part) == [threw |-> FALSE, inlineData |-> part, reason |-> NonError]
Threw(err) ==
    [threw |-> TRUE, inlineData |-> [data |-> Undefined, mimeType |-> Undefined],
     reason |-> err]

\* faulty variant: the payload is not checked
convertWithoutPayloadCheck(dataUrl) ==
    LET parts == Split(dataUrl, ",")
        mimeType == MatchMime(ArrayAt(parts, 0))
        base64Data == ArrayAt(parts, 1)
    IN  IF ~Truthy(mimeType)
        THEN Threw(ErrorOf(InvalidDataUrl))
        ELSE Returned([data |-> base64Data, mimeType |-> mimeType])

convertDataUrlToGeminiPart(dataUrl) ==
    LET parts == Split(dataUrl, ",")
        mimeType == MatchMime(ArrayAt(parts, 0))
        base64Data == ArrayAt(parts, 1)
    IN  IF ~Truthy(mimeType) \/ ~Truthy(base64Data)
        THEN Threw(ErrorOf(InvalidDataUrl))
        ELSE Returned([data |-> base64Data, mimeType |-> mimeType])

\* the parts of a request
ImagePart(inlineData) ==
    [isText |-> FALSE, inlineData |-> inlineData, text |-> Undefined]
TextPart(t) ==
    [isText |-> TRUE, inlineData |-> [data |-> Undefined, mimeType |-> Undefined],
     text |-> t]
NoRequest == <<>>

\* faulty variant: the product image is sent first
RequestPartsProductFirst(characterPart, productPart) ==
    <<ImagePart(productPart), ImagePart(characterPart), TextPart(InstructionText)>>

\* contents.parts of the generateContent call
RequestParts(characterPart, productPart) ==
    <<ImagePart(characterPart), ImagePart(productPart), TextPart(InstructionText)>>

\* faulty variant: the catch block drops the message of what it caught
CatchRethrowGeneric(err) == ErrorOf(UnknownGenError)

\* the catch block: every thrown value leaves as a new Error
CatchRethrow(err) ==
    IF err.isError
    THEN ErrorOf(FailedPrefix \o err.message)
    ELSE ErrorOf(UnknownGenError)

Pending == [kind |-> "pending", value |-> Undefined, reason |-> NonError]
Fulfilled(v) == [kind |-> "fulfilled", value |-> v, reason |-> NonError]
Rejected(err) == [kind |-> "rejected", value |-> Undefined, reason |-> err]

NoResponse == [kind |-> "none"]
Resolved(r) == [kind |-> "resolved", value |-> r]
Failed(err) == [kind |-> "rejected", reason |-> err]

\* part.inlineData?.data
PartData(part) == IF part.hasInlineData THEN part.data ELSE Undefined

\* response.candidates?.[0]?.content?.parts || []
ResponseParts(resp) ==
    IF resp.hasCandidates /\ Len(resp.candidates) >= 1
       /\ resp.candidates[1].hasContent
    THEN resp.candidates[1].parts
    ELSE <<>>

\* the for loop: the data of the first part whose data is truthy, or
\* Undefined when the loop ends without returning
RECURSIVE ScanParts(_)
ScanParts(parts) ==
    IF parts = <<>>
    THEN Undefined
    ELSE IF Truthy(PartData(Head(parts)))
         THEN PartData(Head(parts))
         ELSE ScanParts(Tail(parts))

\* faulty variant: the text is not trimmed
TextResponseUntrimmed(resp) == resp.text

\* response.text?.trim()
TextResponse(resp) == IF resp.text = Undefined THEN Undefined ELSE Trim(resp.text)

\* faulty variant: the explanatory text is looked at before the parts
AfterResponseTextFirst(resp) ==
    LET found == ScanParts(ResponseParts(resp))
        textResponse == TextResponse(resp)
    IN  IF Truthy(textResponse)
        THEN Rejected(CatchRethrow(ErrorOf(ModelResponsePrefix \o textResponse)))
        ELSE IF found # Undefined THEN Fulfilled(found) ELSE Fulfilled(Null)

\* the function from the resolved await to its return / throw
AfterResponse(resp) ==
    LET found == ScanParts(ResponseParts(resp))
        textResponse == TextResponse(resp)
    IN  IF found # Undefined
        THEN Fulfilled(found)
        ELSE IF Truthy(textResponse)
             THEN Rejected(CatchRethrow(ErrorOf(ModelResponsePrefix \o textResponse)))
             ELSE Fulfilled(Null)

\* the function up to its await: both inputs are decoded, then the call is
\* issued; a decoding error is caught and rethrown without a call
GenerateStart(characterUrl, productUrl) ==
    LET characterPart == convertDataUrlToGeminiPart(characterUrl)
        productPart == convertDataUrlToGeminiPart(productUrl)
    IN  /\ response' = NoResponse
        /\ IF characterPart.threw
           THEN /\ outcome' = Rejected(CatchRethrow(characterPart.reason))
                /\ pc' = "settled"
                /\ request' = NoRequest
                /\ calls' = 0
           ELSE IF productPart.threw
           THEN /\ outcome' = Rejected(CatchRethrow(productPart.reason))
                /\ pc' = "settled"
                /\ request' = NoRequest
                /\ calls' = 0
           ELSE /\ outcome' = Pending
                /\ pc' = "awaiting"
                /\ request' = RequestParts(characterPart.inlineData,
                                           productPart.inlineData)
                /\ calls' = 1

\* the remote call resolves with a response
RemoteResolve(resp) ==
    /\ pc = "awaiting"
    /\ response' = Resolved(resp)
    /\ outcome' = AfterResponse(resp)
    /\ pc' = "settled"
    /\ lastOp' = [name |-> "generateContent", slot |-> "none"]
    /\ UNCHANGED <<uiVars, args, request, calls>>

\* the remote call rejects; the catch block rethrows
RemoteReject(err) ==
    /\ pc = "awaiting"
    /\ response' = Failed(err)
    /\ outcome' = Rejected(CatchRethrow(err))
    /\ pc' = "settled"
    /\ lastOp' = [name |-> "generateContent", slot |-> "none"]
    /\ UNCHANGED <<uiVars, args, request, calls>>

(***************************************************************************)
(* Inputs of the model.                                                    *)
(***************************************************************************)
UrlChars == {":", ";", ",", "m"}
Urls == SeqsUpTo(UrlChars, MaxUrlLen)
\* data URLs paired with every URL of Urls: a well-formed one, one without
\* a comma, one without a payload, one without a MIME type
SampleUrls == { <<":", "m", ";", ",", "m">>, <<":", "m", ";", "m">>,
                <<":", "m", ";", ",">>, <<":", ";", ",", "m">> }

PartSet == { [hasInlineData |-> FALSE, data |-> Undefined],
             [hasInlineData |-> TRUE, data |-> <<>>],
             [hasInlineData |-> TRUE, data |-> <<"P">>],
             [hasInlineData |-> TRUE, data |-> <<"Q">>] }
NoContent == [hasContent |-> FALSE, parts |-> <<>>]
Candidates ==
    {NoContent} \cup {[hasContent |-> TRUE, parts |-> ps] : ps \in SeqsUpTo(PartSet, MaxParts)}
\* a second candidate, which the client never reads
Decoy == [hasContent |-> TRUE, parts |-> << [hasInlineData |-> TRUE, data |-> <<"D">>] >>]
CandidateLists ==
    {<<>>} \cup {<<c>> : c \in Candidates}
        \cup {<<NoContent, Decoy>>, <<[hasContent |-> TRUE, parts |-> <<>>], Decoy>>}
TextChars == {" ", "N"}
Texts == {Undefined} \cup SeqsUpTo(TextChars, MaxText)
Responses ==
    {[hasCandidates |-> FALSE, candidates |-> <<>>, text |-> t] : t \in Texts}
    \cup {[hasCandidates |-> TRUE, candidates |-> cs, text |-> t] :
             cs \in CandidateLists, t \in Texts}
RemoteErrors == {ErrorOf(<<"4", "2", "9">>), NonError}

(***************************************************************************)
(* GenSpec: generateProductPlacementImage called once on arbitrary inputs. *)
(***************************************************************************)
Slots == {"character", "product"}
Op(name, slot) == [name |-> name, slot |-> slot]
NoFile == "none"
NullImage == [file |-> NoFile, base64Url |-> Null]

UIInit ==
    /\ characterImage = NullImage
    /\ productImage = NullImage
    /\ generatedImage = Null
    /\ isLoading = FALSE
    /\ error = Null
    /\ imagePreview = [s \in Slots |-> Null]
    /\ inputValue = [s \in Slots |-> NoFile]
    /\ readers = [s \in Slots |-> <<>>]
    /\ inFlight = 0
    /\ lastOp = Op("none", "none")

ClientInit ==
    /\ pc = "idle"
    /\ request = NoRequest
    /\ calls = 0
    /\ response = NoResponse
    /\ outcome = Pending

GenInit ==
    /\ UIInit
    /\ ClientInit
    /\ args \in (Urls \X SampleUrls) \cup (SampleUrls \X Urls)

GenInvoke ==
    /\ pc = "idle"
    /\ GenerateStart(args[1], args[2])
    /\ lastOp' = Op("generateProductPlacementImage", "none")
    /\ UNCHANGED <<uiVars, args>>

GenNext ==
    \/ GenInvoke
    \/ \E resp \in Responses : RemoteResolve(resp)
    \/ \E err \in RemoteErrors : RemoteReject(err)

GenSpec == GenInit /\ [][GenNext]_vars

(***************************************************************************)
(* Properties of the generation client, stated on the response and the     *)
(* data URLs themselves.                                                   *)
(***************************************************************************)
IsSubstring(a, b) ==
    \E i \in 0..Len(b) : i + Len(a) <= Len(b) /\ SubSeq(b, i + 1, i + Len(a)) = a

\* the content parts of the first candidate, none when there is no such list
FirstCandidateParts(resp) ==
    IF ~resp.hasCandidates \/ resp.candidates = <<>> THEN <<>>
    ELSE IF ~resp.candidates[1].hasContent THEN <<>>
    ELSE resp.candidates[1].parts

\* the positions of the parts that carry non-empty inline image data
ImagePositions(ps) ==
    {i \in 1..Len(ps) : ps[i].hasInlineData /\ ps[i].data # Undefined /\ Len(ps[i].data) > 0}

\* the text without its leading and trailing white space
Stripped(t) ==
    LET keep == {i \in 1..Len(t) : t[i] \notin WhiteSpace}
    IN  IF keep = {} THEN <<>>
        ELSE SubSeq(t, CHOOSE i \in keep : \A j \in keep : i <= j,
                       CHOOSE i \in keep : \A j \in keep : j <= i)

HasExplanation(resp) == resp.text # Undefined /\ Stripped(resp.text) # <<>>

\* C1: when the first candidate's parts hold at least one part with
\* non-empty inline image data, the call returns exactly the data of the
\* first such part, whatever the later parts and the top-level text are,
\* and raises no error.
C1_FirstImageReturned ==
    (pc = "settled" /\ response.kind = "resolved") =>
        LET ps == FirstCandidateParts(response.value)
            at == ImagePositions(ps)
        IN  at # {} =>
              outcome = Fulfilled(ps[CHOOSE i \in at : \A j \in at : i <= j].data)

C1_Witness ==
    /\ pc = "settled"
    /\ response.kind = "resolved"
    /\ LET ps == FirstCandidateParts(response.value)
       IN  /\ ImagePositions(ps) = {1, 2}
           /\ ps[1].data # ps[2].data
           /\ HasExplanation(response.value)
           /\ outcome = Fulfilled(ps[1].data)

\* C2: when no part carries inline image data and the top-level text is
\* non-empty after trimming, the call fails, and the message of the error
\* that leaves the catch block contains the trimmed text.
C2_RefusalTextSurfaced ==
    (pc = "settled" /\ response.kind = "resolved") =>
        LET resp == response.value
        IN  (ImagePositions(FirstCandidateParts(resp)) = {} /\ HasExplanation(resp)) =>
              /\ outcome.kind = "rejected"
              /\ outcome.reason.isError
              /\ IsSubstring(Stripped(resp.text), outcome.reason.message)

C2_Witness ==
    /\ pc = "settled"
    /\ response.kind = "resolved"
    /\ ImagePositions(FirstCandidateParts(response.value)) = {}
    /\ response.value.text = <<" ", "N">>
    /\ outcome.kind = "rejected"
    /\ outcome.reason.message = FailedPrefix \o ModelResponsePrefix \o <<"N">>

\* C3: when no part carries inline image data (also with no candidate list
\* or an empty parts list) and the top-level text is absent, empty or only
\* white space, the call returns null and raises no error.
C3_EmptyResultIsNull ==
    (pc = "settled" /\ response.kind = "resolved") =>
        LET resp == response.value
        IN  (ImagePositions(FirstCandidateParts(resp)) = {} /\ ~HasExplanation(resp)) =>
              outcome = Fulfilled(Null)

C3_Witness ==
    /\ pc = "settled"
    /\ response.kind = "resolved"
    /\ ~response.value.hasCandidates
    /\ response.value.text = <<" ", " ">>
    /\ outcome = Fulfilled(Null)

\* the text before the first comma
HeaderOf(u) ==
    LET commas == {i \in 1..Len(u) : u[i] = ","}
    IN  IF commas = {} THEN u
        ELSE SubSeq(u, 1, (CHOOSE i \in commas : \A j \in commas : i <= j) - 1)

LacksComma(u) == \A i \in 1..Len(u) : u[i] # ","

\* no ':' in the header, no ';' after its first ':', or nothing between them
LacksMimeToken(u) ==
    LET h == HeaderOf(u)
        colons == {i \in 1..Len(h) : h[i] = ":"}
    IN  \/ colons = {}
        \/ LET c == CHOOSE i \in colons : \A j \in colons : i <= j
           IN  \/ \A j \in (c + 1)..Len(h) : h[j] # ";"
               \/ (c + 1 <= Len(h) /\ h[c + 1] = ";")

\* the first comma is the last character
EmptyPayload(u) == ~LacksComma(u) /\ Len(HeaderOf(u)) + 1 = Len(u)

Malformed(u) == LacksComma(u) \/ LacksMimeToken(u) \/ EmptyPayload(u)

\* C4: when the data URL of either input lacks a comma, lacks a MIME-type
\* token between ':' and ';', or has an empty payload, the call fails with
\* the malformed-input error and the remote call is never issued.
C4_MalformedInputFailsBeforeCall ==
    (pc # "idle" /\ (Malformed(args[1]) \/ Malformed(args[2]))) =>
        /\ pc = "settled"
        /\ outcome = Rejected(ErrorOf(FailedPrefix \o InvalidDataUrl))
        /\ calls = 0
        /\ request = NoRequest
        /\ response = NoResponse

C4_Witness ==
    /\ pc = "settled"
    /\ ~Malformed(args[1])
    /\ EmptyPayload(args[2])
    /\ ~LacksMimeToken(args[2])
    /\ outcome.kind = "rejected"
    /\ calls = 0

\* C5: for well-formed inputs the one request has exactly three parts: the
\* part decoded from the character image, the part decoded from the product
\* image, the fixed instruction text, in this order; at most one remote
\* call is issued by an invocation.
C5_RequestOrder ==
    /\ calls <= 1
    /\ (pc # "idle" /\ ~convertDataUrlToGeminiPart(args[1]).threw
                    /\ ~convertDataUrlToGeminiPart(args[2]).threw) =>
          /\ calls = 1
          /\ Len(request) = 3
          /\ ~request[1].isText
          /\ request[1].inlineData = convertDataUrlToGeminiPart(args[1]).inlineData
          /\ ~request[2].isText
          /\ request[2].inlineData = convertDataUrlToGeminiPart(args[2]).inlineData
          /\ request[3].isText
          /\ request[3].text = InstructionText

C5_Witness ==
    /\ pc = "awaiting"
    /\ Len(request) = 3
    /\ request[1].inlineData = [data |-> <<";">>, mimeType |-> <<"m">>]
    /\ request[2].inlineData = [data |-> <<"m">>, mimeType |-> <<"m">>]


(***************************************************************************)
(* The uploader slots and the App (Spec).                                  *)
(***************************************************************************)
\* the files the user can pick: an image, an image of zero bytes, a text file
Files == {"A", "E", "T"}

\* file.type
FileType(f) ==
    CASE f = "A" -> <<"i", "m", "a", "g", "e", "/", "p", "n", "g">>
      [] f = "E" -> <<"i", "m", "a", "g", "e", "/", "j", "p", "e", "g">>
      [] f = "T" -> <<"t", "e", "x", "t", "/", "p", "l", "a", "i", "n">>

\* the content of the file, in base64
FileBase64(f) ==
    CASE f = "A" -> <<"Q", "Q", "=", "=">>
      [] f = "E" -> <<>>
      [] f = "T" -> <<"a", "G", "k", "=">>

StartsWith(s, prefix) ==
    Len(prefix) <= Len(s) /\ SubSeq(s, 1, Len(prefix)) = prefix

\* file && file.type.startsWith('image/')
IsImageFile(f) ==
    f # NoFile /\ StartsWith(FileType(f), <<"i", "m", "a", "g", "e", "/">>)

\* reader.result of readAsDataURL(file)
ReadAsDataURL(f) ==
    <<"d", "a", "t", "a", ":">> \o FileType(f)
        \o <<";", "b", "a", "s", "e", "6", "4", ",">> \o FileBase64(f)

\* the state the owner holds for a slot
Owner(slot) == IF slot = "character" THEN characterImage ELSE productImage

\* onImageUpload(v): setCharacterImage / setProductImage
onImageUpload(slot, v) ==
    IF slot = "character"
    THEN characterImage' = v /\ UNCHANGED productImage
    ELSE productImage' = v /\ UNCHANGED characterImage

\* a promise continuation is queued: it runs before any other event
MicrotaskQueued == pc = "settled"

clientVars == <<pc, args, request, calls, response, outcome>>

\* faulty variant: a rejected file clears the preview but the owner is not told
handleFileChangeKeepsOwner(slot, f) ==
    /\ ~MicrotaskQueued
    /\ f # inputValue[slot]
    /\ lastOp' = Op("handleFileChange", slot)
    /\ inputValue' = [inputValue EXCEPT ![slot] = f]
    /\ IF IsImageFile(f)
       THEN /\ Len(readers[slot]) < MaxReaders
            /\ readers' = [readers EXCEPT ![slot] = Append(@, f)]
            /\ UNCHANGED <<imagePreview, characterImage, productImage>>
       ELSE /\ imagePreview' = [imagePreview EXCEPT ![slot] = Null]
            /\ UNCHANGED <<readers, characterImage, productImage>>
    /\ UNCHANGED <<generatedImage, isLoading, error, inFlight, clientVars>>

\* the user picks f in the slot's file dialog (NoFile: the selection is
\* emptied); the change event fires only when the selection changes
handleFileChange(slot, f) ==
    /\ ~MicrotaskQueued
    /\ f # inputValue[slot]
    /\ lastOp' = Op("handleFileChange", slot)
    /\ inputValue' = [inputValue EXCEPT ![slot] = f]
    /\ IF IsImageFile(f)
       THEN /\ Len(readers[slot]) < MaxReaders
            /\ readers' = [readers EXCEPT ![slot] = Append(@, f)]
            /\ UNCHANGED <<imagePreview, characterImage, productImage>>
       ELSE /\ imagePreview' = [imagePreview EXCEPT ![slot] = Null]
            /\ onImageUpload(slot, NullImage)
            /\ UNCHANGED readers
    /\ UNCHANGED <<generatedImage, isLoading, error, inFlight, clientVars>>

\* reader.onloadend of the i-th pending FileReader of the slot (the read
\* succeeds); the readers of a slot end in any order
onloadend(slot, i) ==
    /\ ~MicrotaskQueued
    /\ i \in 1..Len(readers[slot])
    /\ lastOp' = Op("onloadend", slot)
    /\ LET file == readers[slot][i]
           base64Url == ReadAsDataURL(file)
       IN  /\ imagePreview' = [imagePreview EXCEPT ![slot] = base64Url]
           /\ onImageUpload(slot, [file |-> file, base64Url |-> base64Url])
    /\ readers' = [readers EXCEPT ![slot] =
                      SubSeq(@, 1, i - 1) \o SubSeq(@, i + 1, Len(@))]
    /\ UNCHANGED <<inputValue, generatedImage, isLoading, error, inFlight,
                   clientVars>>

\* faulty variant: the file input keeps its value
handleClearKeepsInput(slot) ==
    /\ ~MicrotaskQueued
    /\ Truthy(imagePreview[slot])
    /\ lastOp' = Op("handleClear", slot)
    /\ imagePreview' = [imagePreview EXCEPT ![slot] = Null]
    /\ onImageUpload(slot, NullImage)
    /\ UNCHANGED <<inputValue, readers, generatedImage, isLoading, error, inFlight,
                   clientVars>>

\* the Remove button, rendered while the slot shows a preview
handleClear(slot) ==
    /\ ~MicrotaskQueued
    /\ Truthy(imagePreview[slot])
    /\ lastOp' = Op("handleClear", slot)
    /\ imagePreview' = [imagePreview EXCEPT ![slot] = Null]
    /\ onImageUpload(slot, NullImage)
    /\ inputValue' = [inputValue EXCEPT ![slot] = NoFile]
    /\ UNCHANGED <<readers, generatedImage, isLoading, error, inFlight,
                   clientVars>>

\* faulty variant: the Generate button stays enabled while a request is outstanding
canGenerateWhileLoading == characterImage # NullImage /\ productImage # NullImage

canGenerate ==
    characterImage # NullImage /\ productImage # NullImage /\ ~isLoading

\* a click on the enabled Generate button, up to the await
handleGenerate ==
    /\ ~MicrotaskQueued
    /\ canGenerate
    /\ lastOp' = Op("handleGenerate", "none")
    /\ IF characterImage = NullImage \/ productImage = NullImage
       THEN /\ error' = UploadBothMessage
            /\ UNCHANGED <<generatedImage, isLoading, inFlight, clientVars>>
       ELSE /\ isLoading' = TRUE
            /\ error' = Null
            /\ generatedImage' = Null
            /\ inFlight' = inFlight + 1
            /\ args' = <<characterImage.base64Url, productImage.base64Url>>
            /\ GenerateStart(characterImage.base64Url, productImage.base64Url)
    /\ UNCHANGED <<characterImage, productImage, imagePreview, inputValue, readers>>

\* what the catch block of handleGenerate stores for a thrown value
ErrorMessage(err) == IF err.isError THEN err.message ELSE UnknownError

\* faulty variant: isLoading is reset on success only (no finally)
handleGenerateResumeNoFinally ==
    /\ pc = "settled"
    /\ lastOp' = Op("handleGenerateResume", "none")
    /\ IF outcome.kind = "fulfilled" /\ Truthy(outcome.value)
       THEN /\ generatedImage' = PngUrlPrefix \o outcome.value
            /\ isLoading' = FALSE
            /\ UNCHANGED error
       ELSE /\ error' = IF outcome.kind = "fulfilled"
                        THEN ErrorMessage(ErrorOf(NoImageMessage))
                        ELSE ErrorMessage(outcome.reason)
            /\ UNCHANGED <<generatedImage, isLoading>>
    /\ inFlight' = inFlight - 1
    /\ pc' = "idle"
    /\ args' = <<Null, Null>>
    /\ request' = NoRequest
    /\ calls' = 0
    /\ response' = NoResponse
    /\ outcome' = Pending
    /\ UNCHANGED <<characterImage, productImage, imagePreview, inputValue, readers>>

\* handleGenerate after the await: try / catch / finally
handleGenerateResume ==
    /\ pc = "settled"
    /\ lastOp' = Op("handleGenerateResume", "none")
    /\ IF outcome.kind = "fulfilled" /\ Truthy(outcome.value)
       THEN /\ generatedImage' = PngUrlPrefix \o outcome.value
            /\ UNCHANGED error
       ELSE /\ error' = IF outcome.kind = "fulfilled"
                        THEN ErrorMessage(ErrorOf(NoImageMessage))
                        ELSE ErrorMessage(outcome.reason)
            /\ UNCHANGED generatedImage
    /\ isLoading' = FALSE
    /\ inFlight' = inFlight - 1
    \* the invocation has ended: nothing refers to its locals any more
    /\ pc' = "idle"
    /\ args' = <<Null, Null>>
    /\ request' = NoRequest
    /\ calls' = 0
    /\ response' = NoResponse
    /\ outcome' = Pending
    /\ UNCHANGED <<characterImage, productImage, imagePreview, inputValue, readers>>

\* responses of the remote model seen through the App: an image with a
\* text, nothing at all, a refusal
UIResponses ==
    { [hasCandidates |-> TRUE,
       candidates |-> << [hasContent |-> TRUE,
                          parts |-> << [hasInlineData |-> FALSE, data |-> Undefined],
                                       [hasInlineData |-> TRUE, data |-> <<"P">>] >>] >>,
       text |-> <<"N">>],
      [hasCandidates |-> FALSE, candidates |-> <<>>, text |-> Undefined],
      [hasCandidates |-> TRUE, candidates |-> <<NoContent>>, text |-> <<" ", "N">>] }

Init ==
    /\ UIInit
    /\ ClientInit
    /\ args = <<Null, Null>>

Next ==
    \/ \E slot \in Slots, f \in Files \cup {NoFile} : handleFileChange(slot, f)
    \/ \E slot \in Slots, i \in 1..MaxReaders : onloadend(slot, i)
    \/ \E slot \in Slots : handleClear(slot)
    \/ handleGenerate
    \/ \E resp \in UIResponses : RemoteResolve(resp)
    \/ \E err \in RemoteErrors : RemoteReject(err)
    \/ handleGenerateResume

Spec == Init /\ [][Next]_vars


\* the remote call settles and the queued continuation runs
LiveSpec ==
    /\ Init
    /\ [][Next]_vars
    /\ WF_vars((\E resp \in UIResponses : RemoteResolve(resp))
                  \/ (\E err \in RemoteErrors : RemoteReject(err)))
    /\ WF_vars(handleGenerateResume)

(***************************************************************************)
(* Properties of the uploader slots and of the App.                        *)
(***************************************************************************)
OtherSlot(slot) == IF slot = "character" THEN "product" ELSE "character"

\* C6: a change event with a non-image file or with no file leaves the
\* slot cleared: its preview is null and the owner holds null, whatever the
\* slot held before.
C6_RejectedSelectionClears ==
    \A slot \in Slots :
        (lastOp = Op("handleFileChange", slot) /\ ~IsImageFile(inputValue[slot])) =>
            /\ imagePreview[slot] = Null
            /\ Owner(slot) = NullImage

\* a text file was picked in the character slot after an image had been
\* accepted there (a scene was generated from it)
C6_Witness ==
    /\ lastOp = Op("handleFileChange", "character")
    /\ inputValue["character"] = "T"
    /\ generatedImage # Null
    /\ imagePreview["character"] = Null
    /\ characterImage = NullImage

\* C7: handleClear sets the slot's preview to null, hands null to the owner
\* and empties the file input, so that a change event fires for every file
\* picked next, the one just cleared included; the other slot and the
\* generation state are left as they were.
C7_ClearResets ==
    [][\A slot \in Slots :
         lastOp' = Op("handleClear", slot) =>
            /\ imagePreview'[slot] = Null
            /\ Owner(slot)' = NullImage
            /\ inputValue'[slot] = NoFile
            /\ \A f \in Files : f # inputValue'[slot]
            /\ imagePreview'[OtherSlot(slot)] = imagePreview[OtherSlot(slot)]
            /\ Owner(OtherSlot(slot))' = Owner(OtherSlot(slot))
            /\ inputValue'[OtherSlot(slot)] = inputValue[OtherSlot(slot)]
            /\ generatedImage' = generatedImage
            /\ error' = error
            /\ isLoading' = isLoading]_vars

C7_Witness ==
    /\ lastOp = Op("handleClear", "character")
    /\ imagePreview["character"] = Null
    /\ characterImage = NullImage
    /\ inputValue["character"] = NoFile
    /\ productImage # NullImage
    /\ generatedImage # Null

\* C8: at most one generation request is in flight: the Generate button is
\* enabled only with both images present and isLoading false, and isLoading
\* is true exactly while an invocation is outstanding.
C8_OneRequestInFlight ==
    /\ inFlight <= 1
    /\ isLoading <=> inFlight = 1
    /\ isLoading <=> pc # "idle"
    /\ canGenerate =>
          (characterImage # NullImage /\ productImage # NullImage /\ inFlight = 0)

\* a request is outstanding while both images are present
C8_Witness ==
    /\ pc = "awaiting"
    /\ inFlight = 1
    /\ isLoading
    /\ characterImage # NullImage
    /\ productImage # NullImage

\* what the user's last action on the slot asks the slot to hold
Expected(slot) ==
    IF IsImageFile(inputValue[slot])
    THEN [file |-> inputValue[slot], base64Url |-> ReadAsDataURL(inputValue[slot])]
    ELSE NullImage

\* C9: once no encoding is pending in a slot, the owner's value and the
\* preview are those of the user's last action on the slot: the encoding of
\* the image picked last, or null after a clear or a rejected selection.
C9_LastActionWins ==
    \A slot \in Slots :
        readers[slot] = <<>> =>
            /\ Owner(slot) = Expected(slot)
            /\ imagePreview[slot] = Expected(slot).base64Url

\* C10: every invocation that starts a request ends with isLoading false
\* and exactly one of generatedImage and error set: the PNG data URL of the
\* returned payload, or else one message (that of the rejection, or the
\* no-image message when null was returned); generatedImage and error are
\* never both set.
C10_GenerationCompletes ==
    /\ [](generatedImage = Null \/ error = Null)
    /\ [][(pc = "settled" /\ pc' = "idle") =>
            /\ isLoading' = FALSE
            /\ (generatedImage' = Null) # (error' = Null)
            /\ IF outcome.kind = "fulfilled" /\ outcome.value # Null
               THEN generatedImage' = PngUrlPrefix \o outcome.value
               ELSE IF outcome.kind = "fulfilled"
                    THEN error' = NoImageMessage
                    ELSE error' \in {outcome.reason.message}]_vars
    /\ (isLoading ~> ~isLoading)

\* an invocation has ended with the no-image message
C10_Witness ==
    /\ lastOp = Op("handleGenerateResume", "none")
    /\ ~isLoading
    /\ generatedImage = Null
    /\ error = NoImageMessage

====
